---- MODULE Spec2Model ----
(***************************************************************************)
(* CloudMart multi-account cost and tagging dashboard (src/App.py).        *)
(*                                                                         *)
(* The program is a Streamlit script: every user interaction re-runs the   *)
(* whole script top to bottom.  A run is modelled as the sequence of its   *)
(* sections (Load, Task1 .. Task5); the widget state that Streamlit keeps  *)
(* between runs (multiselect selections, data-editor edits) is the only    *)
(* state that survives a run.                                              *)
(*                                                                         *)
(* Text is a sequence of characters.  A cell of a DataFrame is a tagged    *)
(* tuple: <<"nan">> (missing), <<"str", c1, .., cn>> (a string) or         *)
(* <<"num", n>> (a number; costs are whole dollars in this model).         *)
(***************************************************************************)
EXTENDS Integers, Sequences, FiniteSets

VARIABLES
    file,           \* the CSV on disk: [exists, lines]
    pc,             \* position of the script run
    df,             \* the DataFrame `df` of the current run
    load_error,     \* st.error of the except branch was shown in this run
    columns_detected, \* "Columns detected:" written at line 38
    tag_counts,     \* 1.4 value_counts(dropna=False)
    pct_untagged,   \* 1.5: <<>> when nothing is written, else <<hundredths>>
    cost_by_tag,    \* 2.1 groupby("Tagged") sum
    total_cost,     \* 2.2 total_cost   (<<>> when Task 2 is skipped)
    untagged_cost,  \* 2.2 untagged_cost
    tag_fields,     \* Task 3 tag_fields
    untagged_df,    \* Task 3 untagged_df
    incomplete_csv, \* payload of the "Download Incomplete Resources" button
    filtered,       \* Task 4 filtered
    charts,         \* Task 4 charts were drawn
    sel,            \* widget state: selection of each multiselect
    edits,          \* widget state: edits made in the data editor
    edited_table,   \* Task 5 edited_table (<<>> when the editor is not shown)
    updated_csv     \* payload of the "Download Updated Data" button

vars == <<file, pc, df, load_error, columns_detected, tag_counts, pct_untagged,
          cost_by_tag, total_cost, untagged_cost, tag_fields, untagged_df,
          incomplete_csv, filtered, charts, sel, edits, edited_table,
          updated_csv>>

(***************************************************************************)
(* Bounds of the model.                                                    *)
(***************************************************************************)
MaxRows == 2        \* data rows in the CSV file
MaxEdits == 1       \* grid edits made during the session
MaxCount == 10      \* data rows in the files of the statistics runs

(***************************************************************************)
(* Characters and text.                                                    *)
(***************************************************************************)
SP == " "
TAB == "tab"
BOM == "bom"
COMMA == ","
QUOTE == "quote"
DOT == "."
Whitespace == {SP, TAB}
Digits == {"0", "1", "2", "3", "4", "5", "6", "7", "8", "9"}

\* A one-word text: the word is a single character of the model's alphabet.
W(word) == <<word>>

RECURSIVE Split(_, _)
\* str.split(sep)
Split(s, sep) ==
    IF \A i \in 1..Len(s) : s[i] # sep
    THEN <<s>>
    ELSE LET k == CHOOSE i \in 1..Len(s) :
                      s[i] = sep /\ \A j \in 1..(i - 1) : s[j] # sep
         IN  <<SubSeq(s, 1, k - 1)>> \o Split(SubSeq(s, k + 1, Len(s)), sep)

RECURSIVE Join(_, _)
\* sep.join(parts)
Join(parts, sep) ==
    IF parts = <<>> THEN <<>>
    ELSE IF Len(parts) = 1 THEN parts[1]
    ELSE parts[1] \o <<sep>> \o Join(Tail(parts), sep)

RECURSIVE Strip(_)
\* str.strip(): leading and trailing whitespace removed
Strip(s) ==
    IF s # <<>> /\ Head(s) \in Whitespace THEN Strip(Tail(s))
    ELSE IF s # <<>> /\ s[Len(s)] \in Whitespace
         THEN Strip(SubSeq(s, 1, Len(s) - 1))
         ELSE s

\* str.replace(old, ""): every occurrence of the character removed
Remove(s, old) == SelectSeq(s, LAMBDA c : c # old)

\* regex ^\s*$
IsBlank(s) == \A i \in 1..Len(s) : s[i] \in Whitespace

DigitVal(c) ==
    CASE c = "0" -> 0 [] c = "1" -> 1 [] c = "2" -> 2 [] c = "3" -> 3
      [] c = "4" -> 4 [] c = "5" -> 5 [] c = "6" -> 6 [] c = "7" -> 7
      [] c = "8" -> 8 [] c = "9" -> 9

DigitChar(n) ==
    CASE n = 0 -> "0" [] n = 1 -> "1" [] n = 2 -> "2" [] n = 3 -> "3"
      [] n = 4 -> "4" [] n = 5 -> "5" [] n = 6 -> "6" [] n = 7 -> "7"
      [] n = 8 -> "8" [] n = 9 -> "9"

\* the text is a non-negative integer literal
IsNumeric(s) == s # <<>> /\ \A i \in 1..Len(s) : s[i] \in Digits

RECURSIVE ParseInt(_)
ParseInt(s) ==
    IF s = <<>> THEN 0
    ELSE 10 * ParseInt(SubSeq(s, 1, Len(s) - 1)) + DigitVal(s[Len(s)])

RECURSIVE FormatInt(_)
FormatInt(n) ==
    IF n < 10 THEN <<DigitChar(n)>>
    ELSE FormatInt(n \div 10) \o <<DigitChar(n % 10)>>

(***************************************************************************)
(* Cells and tables.                                                       *)
(***************************************************************************)
Missing == <<"nan">>
Str(s) == <<"str">> \o s
Num(n) == <<"num", n>>
IsNull(c) == c = Missing
IsNum(c) == c[1] = "num"
IsStr(c) == c[1] = "str"
Text(c) == Tail(c)
Val(c) == c[2]

\* pd.DataFrame()
EmptyFrame == [cols |-> <<>>, rows |-> <<>>]

\* DataFrame.empty
IsEmpty(t) == Len(t.cols) = 0 \/ Len(t.rows) = 0

\* `name in df.columns`
HasCol(t, name) == \E j \in 1..Len(t.cols) : t.cols[j] = name

\* position of a column
ColIdx(t, name) == CHOOSE j \in 1..Len(t.cols) : t.cols[j] = name

\* df[name] of row i
Cell(t, i, name) == t.rows[i][ColIdx(t, name)]

RECURSIVE SumSeq(_)
SumSeq(s) == IF s = <<>> THEN 0 ELSE Head(s) + SumSeq(Tail(s))

Max(S) == IF S = {} THEN 0 ELSE CHOOSE m \in S : \A x \in S : x <= m

\* the rows of t whose index satisfies keep, in order (boolean-mask indexing)
RECURSIVE MaskRows(_, _, _)
MaskRows(rows, keep, i) ==
    IF i > Len(rows) THEN <<>>
    ELSE (IF keep[i] THEN <<rows[i]>> ELSE <<>>) \o MaskRows(rows, keep, i + 1)

Mask(t, keep) == [cols |-> t.cols, rows |-> MaskRows(t.rows, keep, 1)]

(***************************************************************************)
(* Ingestion and repair (App.py lines 18-42).                              *)
(***************************************************************************)
MonthlyCostUSD == W("MonthlyCostUSD")
Tagged == W("Tagged")
ResourceID == W("ResourceID")
CompletenessScore == W("CompletenessScore")
Service == W("Service")
Region == W("Region")
Department == W("Department")
No == Str(W("No"))

\* pd.read_csv(csv_path) of a file whose records each sit in one column:
\* the header text is the name of the only column, the other lines its values.
\* A missing or empty file raises.
ReadCsv(f) ==
    IF ~f.exists \/ f.lines = <<>>
    THEN [ok |-> FALSE, columns |-> <<>>, values |-> <<>>]
    ELSE [ok |-> TRUE, columns |-> <<f.lines[1]>>, values |-> Tail(f.lines)]

\* mutant: the byte-order mark is left in the name
CleanName_StripOnly(col) == Strip(col)

\* col.strip().replace(BOM, "")
CleanName(col) == Remove(Strip(col), BOM)

\* [col.strip().replace(BOM,"") for col in header_string.split(',')]
CleanedHeaderList(header_string) ==
    LET parts == Split(header_string, COMMA)
    IN  [j \in 1..Len(parts) |-> CleanName(parts[j])]

\* Series.str.split(',', expand=True): as many columns as the widest row has
\* fields, the narrower rows padded with None
SplitExpand(values) ==
    LET parts == [i \in 1..Len(values) |-> Split(values[i], COMMA)]
        width == Max({Len(parts[i]) : i \in 1..Len(values)})
    IN  [width |-> width,
         rows  |-> [i \in 1..Len(values) |->
                      [j \in 1..width |->
                         IF j <= Len(parts[i]) THEN Str(parts[i][j])
                                               ELSE Missing]]]

\* df.replace(r'^\s*$', float('nan'), regex=True) on one cell
ReplaceBlank(c) == IF IsStr(c) /\ IsBlank(Text(c)) THEN Missing ELSE c

\* pd.to_numeric accepts the cell
NumericOk(c) == IsNull(c) \/ IsNum(c) \/ (IsStr(c) /\ IsNumeric(Text(c)))

\* pd.to_numeric on one cell
ToNumeric(c) == IF IsStr(c) THEN Num(ParseInt(Text(c))) ELSE c

\* mutant: the except branch leaves a one-column frame behind
LoadFailure_KeepsFrame ==
    [ok |-> FALSE, df |-> [cols |-> <<W("raw")>>, rows |-> <<<<Missing>>>>]]

\* the except branch: pd.DataFrame()
LoadFailure == [ok |-> FALSE, df |-> EmptyFrame]

\* the try block, lines 19-38
LoadCsv(f) ==
    LET single == ReadCsv(f)
    IN  IF ~single.ok THEN LoadFailure
        ELSE
        LET header == CleanedHeaderList(single.columns[1])
            split  == SplitExpand(single.values)
        IN  IF split.width # Len(header) THEN LoadFailure   \* length mismatch
            ELSE
            LET t == [cols |-> header,
                      rows |-> [i \in 1..Len(split.rows) |->
                                  [j \in 1..split.width |->
                                     ReplaceBlank(split.rows[i][j])]]]
                n == Cardinality({j \in 1..Len(header) :
                                     header[j] = MonthlyCostUSD})
            IN  IF n # 1 THEN LoadFailure     \* KeyError / not a Series
                ELSE
                LET k == ColIdx(t, MonthlyCostUSD)
                IN  IF \E i \in 1..Len(t.rows) : ~NumericOk(t.rows[i][k])
                    THEN LoadFailure          \* ValueError
                    ELSE [ok |-> TRUE,
                          df |-> [cols |-> header,
                                  rows |-> [i \in 1..Len(t.rows) |->
                                     [j \in 1..Len(header) |->
                                        IF j = k THEN ToNumeric(t.rows[i][j])
                                                 ELSE t.rows[i][j]]]]]

(***************************************************************************)
(* The CSV files the model is run on.  A record line is the comma-join of  *)
(* its fields; a file is a header with 1..MaxRows record lines, or absent. *)
(***************************************************************************)
E == <<>>   \* the empty field

HdrFull == <<ResourceID, Department, W("Project"), W("Environment"),
             W("Owner"), W("CostCenter"), W("CreatedBy"), Tagged,
             MonthlyCostUSD>>
RowsFull ==
    << <<W("r1"), W("Eng"), W("P"), W("prod"), W("o"), W("cc"), W("cb"),
         W("Yes"), W("3")>>,
       <<W("r2"), E, E, E, E, E, E, W("No"), W("2")>>,
       <<W("r3"), W("Eng"), <<SP>>, W("dev"), W("o"), E, W("cb"), E,
         W("1")>> >>

\* a header with whitespace and byte-order marks around the names
HdrSmall == << <<BOM, "ResourceID">>, <<SP, "Department", SP>>,
               <<SP, BOM, "Tagged">>, <<TAB, "MonthlyCostUSD", SP>> >>
RowsSmall ==
    << <<W("a"), W("Eng"), W("Yes"), W("4")>>,
      <<W("b"), <<SP, TAB>>, W("No"), E>>,
      <<W("c"), W("Ops"), W("No"), W("x")>>,               \* cost not numeric
      <<W("d"), W("Eng"), W("No"), W("5"), W("extra")>>,   \* one field too many
      <<W("e"), <<SP, "Ops">>>> >>                          \* two fields short

HdrABC == <<W("A"), W("B"), W("C")>>
RowsABC == << <<W("1"), E, W("3")>> >>

HdrNoID == <<Department, Tagged, MonthlyCostUSD>>
RowsNoID == << <<W("Eng"), W("Yes"), W("1")>>, <<E, W("No"), W("2")>> >>

HdrNoTags == <<ResourceID, Service, Region, Tagged, MonthlyCostUSD>>
RowsNoTags ==
    << <<W("a"), W("EC2"), W("east"), W("Yes"), <<"1", "0">>>>,
      <<W("b"), W("S3"), E, W("No"), E>>,
      <<W("c"), W("EC2"), <<TAB>>, E, W("7")>> >>

Schemas == { [hdr |-> HdrFull, rows |-> RowsFull],
             [hdr |-> HdrSmall, rows |-> RowsSmall],
             [hdr |-> HdrABC, rows |-> RowsABC],
             [hdr |-> HdrNoID, rows |-> RowsNoID],
             [hdr |-> HdrNoTags, rows |-> RowsNoTags] }

\* every field list a record line of the model's files is built from
AllFieldLists == UNION { {s.rows[i] : i \in 1..Len(s.rows)} : s \in Schemas }

\* the k-th smallest element of a set of numbers
Kth(S, k) == CHOOSE x \in S : Cardinality({y \in S : y < x}) = k - 1

\* the subsequences of list that have 1..n elements
SubSeqsUpTo(list, n) ==
    { [k \in 1..Cardinality(S) |-> list[Kth(S, k)]] :
        S \in { T \in SUBSET (1..Len(list)) :
                  Cardinality(T) >= 1 /\ Cardinality(T) <= n } }

NoFile == [exists |-> FALSE, lines |-> <<>>]

\* the file with the given header fields and record field lists
MkFile(hdr, rs) ==
    [exists |-> TRUE,
     lines  |-> <<Join(hdr, COMMA)>> \o
                [i \in 1..Len(rs) |-> Join(rs[i], COMMA)]]

Files ==
    {NoFile} \cup
    UNION { { MkFile(s.hdr, rs) : rs \in SubSeqsUpTo(s.rows, MaxRows) } :
              s \in Schemas }

\* files of up to MaxCount records, some tagged "No" and the others "Yes"
HdrCount == <<ResourceID, Tagged, MonthlyCostUSD>>
RowNo == <<W("r"), W("No"), W("1")>>
RowYes == <<W("r"), W("Yes"), W("1")>>
CountFiles ==
    { MkFile(HdrCount, [i \in 1..n |-> IF i <= k THEN RowNo ELSE RowYes]) :
        k \in 0..MaxCount, n \in 1..MaxCount }

(***************************************************************************)
(* Statistics (Task 1, Task 2).                                            *)
(***************************************************************************)
\* the values of a column, row by row
Column(t, name) == [i \in 1..Len(t.rows) |-> Cell(t, i, name)]

\* Series.value_counts(dropna=False): every value, the missing one included
ValueCounts(t, name) ==
    LET col == Column(t, name)
    IN  [v \in {col[i] : i \in 1..Len(col)} |->
            Cardinality({i \in 1..Len(col) : col[i] = v})]

\* n/d rounded to the nearest integer, ties to even ("{:.2f}" of a quotient
\* in hundredths)
RoundDiv(n, d) ==
    LET q == n \div d
        r == n % d
    IN  IF 2 * r < d THEN q
        ELSE IF 2 * r > d THEN q + 1
        ELSE IF q % 2 = 0 THEN q ELSE q + 1

\* mutant: every record not tagged "Yes" counts as untagged
UntaggedCount_NotYes(t) ==
    Cardinality({i \in 1..Len(t.rows) : Cell(t, i, Tagged) # Str(W("Yes"))})

\* df[df["Tagged"] == "No"].shape[0]
UntaggedCount(t) ==
    Cardinality({i \in 1..Len(t.rows) : Cell(t, i, Tagged) = No})

\* lines 68-70: what "1.5 Percentage of Untagged Resources" writes, in
\* hundredths of a percent; <<>> when the guard of line 68 is false
PctUntagged(t) ==
    IF HasCol(t, Tagged) /\ UntaggedCount(t) > 0
    THEN <<RoundDiv(UntaggedCount(t) * 10000, Len(t.rows))>>
    ELSE <<>>

\* Series.sum() of the numbers of the given rows of a column (NaN skipped)
SumWhere(t, name, rowset) ==
    LET col == Column(t, name)
    IN  SumSeq([i \in 1..Len(col) |->
                  IF i \in rowset /\ IsNum(col[i]) THEN Val(col[i]) ELSE 0])

\* the keys of df.groupby(key): the values of the key column, NaN dropped
GroupKeys(t, key) ==
    {Cell(t, i, key) : i \in 1..Len(t.rows)} \ {Missing}

\* df.groupby(key)[name].sum()
GroupSum(t, key, name) ==
    [k \in GroupKeys(t, key) |->
        SumWhere(t, name, {i \in 1..Len(t.rows) : Cell(t, i, key) = k})]

AllRows(t) == 1..Len(t.rows)

(***************************************************************************)
(* Tagging compliance (Task 3).                                            *)
(***************************************************************************)
TagFieldNames == <<Department, W("Project"), W("Environment"), W("Owner"),
                   W("CostCenter"), W("CreatedBy")>>

\* [col for col in [...] if col in df.columns]
TagFields(t) == SelectSeq(TagFieldNames, LAMBDA c : HasCol(t, c))

\* mutant: isnull() for notnull()
Score_CountsMissing(t, i, fields) ==
    Cardinality({k \in 1..Len(fields) : IsNull(Cell(t, i, fields[k]))})

\* df[tag_fields].notnull().sum(axis=1) of row i
Score(t, i, fields) ==
    Cardinality({k \in 1..Len(fields) : ~IsNull(Cell(t, i, fields[k]))})

\* df[name] = values: the column is replaced when it exists, appended otherwise
SetColumn(t, name, values) ==
    IF HasCol(t, name)
    THEN [cols |-> t.cols,
          rows |-> [i \in 1..Len(t.rows) |->
                      [j \in 1..Len(t.cols) |->
                         IF j = ColIdx(t, name) THEN values[i]
                                                ELSE t.rows[i][j]]]]
    ELSE [cols |-> Append(t.cols, name),
          rows |-> [i \in 1..Len(t.rows) |-> Append(t.rows[i], values[i])]]

\* df["CompletenessScore"] = df[tag_fields].notnull().sum(axis=1)
WithScore(t, fields) ==
    SetColumn(t, CompletenessScore,
              [i \in 1..Len(t.rows) |-> Num(Score(t, i, fields))])

\* df[tag_fields].isnull().any(axis=1)
IncompleteMask(t, fields) ==
    [i \in 1..Len(t.rows) |->
        \E k \in 1..Len(fields) : IsNull(Cell(t, i, fields[k]))]

\* mutant: the missing cells are left missing
FillNa_Nothing(t) == t

\* DataFrame.fillna(''): every missing cell becomes the empty string
FillNa(t) ==
    [cols |-> t.cols,
     rows |-> [i \in 1..Len(t.rows) |->
                 [j \in 1..Len(t.cols) |->
                    IF IsNull(t.rows[i][j]) THEN Str(<<>>) ELSE t.rows[i][j]]]]

\* df[incomplete_mask].fillna('')
IncompleteResources(t, fields) == FillNa(Mask(t, IncompleteMask(t, fields)))

(***************************************************************************)
(* Filters (Task 4).                                                       *)
(***************************************************************************)
FilterCols == <<Service, Region, Department>>

\* df[col].dropna().unique(): the options a multiselect offers
Options(t, col) == GroupKeys(t, col)

\* mutant: isin() applied to an empty selection too
ApplyFilter_EmptyExcludesAll(t, col, selection) ==
    Mask(t, [i \in 1..Len(t.rows) |-> Cell(t, i, col) \in selection])

\* `if selection: filtered = filtered[filtered[col].isin(selection)]`
ApplyFilter(t, col, selection) ==
    IF selection = {} THEN t
    ELSE Mask(t, [i \in 1..Len(t.rows) |-> Cell(t, i, col) \in selection])

RECURSIVE ApplyFilters(_, _, _, _)
\* lines 148-161: the multiselects that exist (column present) applied in turn
ApplyFilters(t, base, selection, k) ==
    IF k > Len(FilterCols) THEN t
    ELSE ApplyFilters(
            IF HasCol(base, FilterCols[k])
            THEN ApplyFilter(t, FilterCols[k], selection[k])
            ELSE t,
            base, selection, k + 1)

(***************************************************************************)
(* Export (to_csv) and the editable grid (Task 5).                         *)
(***************************************************************************)
RECURSIVE DoubleQuotes(_)
\* every quote character doubled
DoubleQuotes(s) ==
    IF s = <<>> THEN <<>>
    ELSE (IF Head(s) = QUOTE THEN <<QUOTE, QUOTE>> ELSE <<Head(s)>>)
         \o DoubleQuotes(Tail(s))

\* csv.QUOTE_MINIMAL: a field holding the delimiter or a quote is quoted
QuoteField(s) ==
    IF \E i \in 1..Len(s) : s[i] \in {COMMA, QUOTE}
    THEN <<QUOTE>> \o DoubleQuotes(s) \o <<QUOTE>>
    ELSE s

\* a numeric column that holds a missing value is float64 and prints "n.0";
\* `base` is the frame the column's dtype was fixed in
IsFloatCol(t, base, j) ==
    \/ \E i \in 1..Len(t.rows) : IsNull(t.rows[i][j])
    \/ /\ HasCol(base, t.cols[j])
       /\ \E i \in 1..Len(base.rows) : IsNull(Cell(base, i, t.cols[j]))

\* one cell as to_csv writes it: missing as the empty field
FormatCell(c, isFloat) ==
    IF IsNull(c) THEN <<>>
    ELSE IF IsNum(c)
         THEN FormatInt(Val(c)) \o (IF isFloat THEN <<DOT, "0">> ELSE <<>>)
         ELSE QuoteField(Text(c))

\* DataFrame.to_csv(index=False): the header line, then one line per row
ToCsv(t, base) ==
    LET isFloat == [j \in 1..Len(t.cols) |-> IsFloatCol(t, base, j)]
    IN  <<Join([j \in 1..Len(t.cols) |-> QuoteField(t.cols[j])], COMMA)>> \o
        [i \in 1..Len(t.rows) |->
            Join([j \in 1..Len(t.cols) |->
                     FormatCell(t.rows[i][j], isFloat[j])], COMMA)]

\* one edit of the grid applied to a frame
ApplyEdit(t, e) ==
    CASE e.op = "cell" ->
           [cols |-> t.cols,
            rows |-> [i \in 1..Len(t.rows) |->
                        [j \in 1..Len(t.cols) |->
                           IF i = e.row /\ j = ColIdx(t, e.col)
                           THEN e.value ELSE t.rows[i][j]]]]
      [] e.op = "delete" ->
           Mask(t, [i \in 1..Len(t.rows) |-> i # e.row])
      [] e.op = "add" ->
           [cols |-> t.cols,
            rows |-> Append(t.rows, [j \in 1..Len(t.cols) |-> Missing])]

\* mutant: the grid returns df and loses the edits
DataEditor_DropsEdits(t, es) == t

RECURSIVE DataEditor(_, _)
\* st.data_editor(df, num_rows="dynamic"): df with the widget's edits applied
DataEditor(t, es) ==
    IF es = <<>> THEN t
    ELSE DataEditor(ApplyEdit(t, Head(es)), Tail(es))

(***************************************************************************)
(* A conformant CSV reader, for reading an export back.                    *)
(***************************************************************************)
RECURSIVE ParseFields(_, _, _, _)
\* the fields of one line: commas separate, quotes enclose, "" is a quote
ParseFields(s, i, quoted, cur) ==
    IF i > Len(s) THEN <<cur>>
    ELSE IF quoted
         THEN IF s[i] = QUOTE
              THEN IF i < Len(s) /\ s[i + 1] = QUOTE
                   THEN ParseFields(s, i + 2, TRUE, Append(cur, QUOTE))
                   ELSE ParseFields(s, i + 1, FALSE, cur)
              ELSE ParseFields(s, i + 1, TRUE, Append(cur, s[i]))
         ELSE IF s[i] = QUOTE THEN ParseFields(s, i + 1, TRUE, cur)
         ELSE IF s[i] = COMMA
              THEN <<cur>> \o ParseFields(s, i + 1, FALSE, <<>>)
              ELSE ParseFields(s, i + 1, FALSE, Append(cur, s[i]))

\* header line and record lines read back as text fields
ParseCsv(lines) ==
    [cols |-> ParseFields(lines[1], 1, FALSE, <<>>),
     rows |-> [i \in 1..(Len(lines) - 1) |->
                 ParseFields(lines[i + 1], 1, FALSE, <<>>)]]

(***************************************************************************)
(* The script run.                                                         *)
(***************************************************************************)
NoSelection == [k \in 1..Len(FilterCols) |-> {}]

Init ==
    /\ file \in Files
    /\ pc = "load"
    /\ df = EmptyFrame
    /\ load_error = FALSE
    /\ columns_detected = <<>>
    /\ tag_counts = <<>>
    /\ pct_untagged = <<>>
    /\ cost_by_tag = <<>>
    /\ total_cost = <<>>
    /\ untagged_cost = <<>>
    /\ tag_fields = <<>>
    /\ untagged_df = <<>>
    /\ incomplete_csv = <<>>
    /\ filtered = <<>>
    /\ charts = FALSE
    /\ sel = NoSelection
    /\ edits = <<>>
    /\ edited_table = <<>>
    /\ updated_csv = <<>>

\* lines 15-42: the file is read anew in every run; what the previous run
\* displayed is cleared
Load ==
    /\ pc = "load"
    /\ LET r == LoadCsv(file)
       IN  /\ df' = r.df
           /\ load_error' = ~r.ok
           /\ columns_detected' = IF r.ok THEN <<r.df.cols>> ELSE <<>>
    /\ tag_counts' = <<>>
    /\ pct_untagged' = <<>>
    /\ cost_by_tag' = <<>>
    /\ total_cost' = <<>>
    /\ untagged_cost' = <<>>
    /\ tag_fields' = <<>>
    /\ untagged_df' = <<>>
    /\ incomplete_csv' = <<>>
    /\ filtered' = <<>>
    /\ charts' = FALSE
    /\ edited_table' = <<>>
    /\ updated_csv' = <<>>
    /\ pc' = "task1"
    /\ UNCHANGED <<file, sel, edits>>

\* lines 50-70 (1.1-1.3 only display df and change nothing)
Task1 ==
    /\ pc = "task1"
    /\ tag_counts' = IF ~IsEmpty(df) /\ HasCol(df, Tagged)
                     THEN <<ValueCounts(df, Tagged)>> ELSE <<>>
    /\ pct_untagged' = IF ~IsEmpty(df) THEN PctUntagged(df) ELSE <<>>
    /\ pc' = "task2"
    /\ UNCHANGED <<file, df, load_error, columns_detected, cost_by_tag,
                   total_cost, untagged_cost, tag_fields, untagged_df,
                   incomplete_csv, filtered, charts, sel, edits, edited_table,
                   updated_csv>>

\* lines 76-99 (2.3-2.5 only display further group sums)
Task2 ==
    /\ pc = "task2"
    /\ IF ~IsEmpty(df) /\ HasCol(df, Tagged) /\ HasCol(df, MonthlyCostUSD)
       THEN /\ cost_by_tag' = <<GroupSum(df, Tagged, MonthlyCostUSD)>>
            /\ total_cost' = <<SumWhere(df, MonthlyCostUSD, AllRows(df))>>
            /\ untagged_cost' =
                 <<SumWhere(df, MonthlyCostUSD,
                            {i \in AllRows(df) : Cell(df, i, Tagged) = No})>>
       ELSE UNCHANGED <<cost_by_tag, total_cost, untagged_cost>>
    /\ pc' = "task3"
    /\ UNCHANGED <<file, df, load_error, columns_detected, tag_counts,
                   pct_untagged, tag_fields, untagged_df, incomplete_csv,
                   filtered, charts, sel, edits, edited_table, updated_csv>>

\* lines 105-140; line 113 raises KeyError when there is no ResourceID
\* column, which ends the run after df has got its CompletenessScore
Task3 ==
    /\ pc = "task3"
    /\ tag_fields' = TagFields(df)
    /\ IF ~IsEmpty(df) /\ TagFields(df) # <<>>
       THEN /\ df' = WithScore(df, TagFields(df))
            /\ IF HasCol(df, ResourceID)
               THEN /\ untagged_df' = <<IncompleteResources(df', TagFields(df))>>
                    /\ incomplete_csv' =
                         IF ~IsEmpty(untagged_df'[1])
                         THEN <<ToCsv(untagged_df'[1], df')>> ELSE <<>>
                    /\ pc' = "task4"
               ELSE /\ UNCHANGED <<untagged_df, incomplete_csv>>
                    /\ pc' = "raised"
       ELSE /\ untagged_df' = <<EmptyFrame>>
            /\ pc' = "task4"
            /\ UNCHANGED <<df, incomplete_csv>>
    /\ UNCHANGED <<file, load_error, columns_detected, tag_counts,
                   pct_untagged, cost_by_tag, total_cost, untagged_cost,
                   filtered, charts, sel, edits, edited_table, updated_csv>>

\* lines 146-193 (the four charts only display group sums of `filtered`)
Task4 ==
    /\ pc = "task4"
    /\ filtered' = <<ApplyFilters(df, df, sel, 1)>>
    /\ charts' = ~IsEmpty(filtered'[1])
    /\ pc' = "task5"
    /\ UNCHANGED <<file, df, load_error, columns_detected, tag_counts,
                   pct_untagged, cost_by_tag, total_cost, untagged_cost,
                   tag_fields, untagged_df, incomplete_csv, sel, edits,
                   edited_table, updated_csv>>

\* lines 199-207
Task5 ==
    /\ pc = "task5"
    /\ IF ~IsEmpty(df)
       THEN /\ edited_table' = <<DataEditor(df, edits)>>
            /\ updated_csv' = <<ToCsv(edited_table'[1], df)>>
       ELSE UNCHANGED <<edited_table, updated_csv>>
    /\ pc' = "done"
    /\ UNCHANGED <<file, df, load_error, columns_detected, tag_counts,
                   pct_untagged, cost_by_tag, total_cost, untagged_cost,
                   tag_fields, untagged_df, incomplete_csv, filtered, charts,
                   sel, edits>>

(***************************************************************************)
(* User interactions: each changes one widget and starts a new run.        *)
(***************************************************************************)
EditCols == {Tagged}
EditValues == {No, Str(<<"x", COMMA, "y">>)}

outputs == <<df, load_error, columns_detected, tag_counts, pct_untagged,
             cost_by_tag, total_cost, untagged_cost, tag_fields, untagged_df,
             incomplete_csv, filtered, charts, edited_table, updated_csv>>

\* the user changes the selection of one of the multiselects on the page
SelectFilter ==
    /\ pc = "done"
    /\ \E k \in 1..Len(FilterCols) :
         /\ HasCol(df, FilterCols[k])
         /\ \E S \in SUBSET Options(df, FilterCols[k]) :
              /\ S # sel[k]
              /\ sel' = [sel EXCEPT ![k] = S]
    /\ pc' = "load"
    /\ UNCHANGED <<file, edits, outputs>>

\* the user types a value into a cell of the grid
EditCell ==
    /\ pc = "done"
    /\ edited_table # <<>>
    /\ Len(edits) < MaxEdits
    /\ \E i \in 1..Len(edited_table[1].rows), c \in EditCols, v \in EditValues :
         /\ HasCol(edited_table[1], c)
         /\ Cell(edited_table[1], i, c) # v
         /\ edits' = Append(edits, [op |-> "cell", row |-> i, col |-> c,
                                    value |-> v])
    /\ pc' = "load"
    /\ UNCHANGED <<file, sel, outputs>>

\* the user deletes a row of the grid
DeleteRow ==
    /\ pc = "done"
    /\ edited_table # <<>>
    /\ Len(edits) < MaxEdits
    /\ \E i \in 1..Len(edited_table[1].rows) :
         edits' = Append(edits, [op |-> "delete", row |-> i])
    /\ pc' = "load"
    /\ UNCHANGED <<file, sel, outputs>>

\* the user adds an (empty) row to the grid
AddRow ==
    /\ pc = "done"
    /\ edited_table # <<>>
    /\ Len(edits) < MaxEdits
    /\ edits' = Append(edits, [op |-> "add"])
    /\ pc' = "load"
    /\ UNCHANGED <<file, sel, outputs>>

Next ==
    \/ Load
    \/ Task1
    \/ Task2
    \/ Task3
    \/ Task4
    \/ Task5
    \/ SelectFilter
    \/ EditCell
    \/ DeleteRow
    \/ AddRow

Spec == Init /\ [][Next]_vars

\* One run of the script, without interactions, on the files above and on
\* larger files of tagged and untagged records.
InitStats ==
    /\ file \in Files \cup CountFiles
    /\ pc = "load"
    /\ df = EmptyFrame
    /\ load_error = FALSE
    /\ columns_detected = <<>>
    /\ tag_counts = <<>>
    /\ pct_untagged = <<>>
    /\ cost_by_tag = <<>>
    /\ total_cost = <<>>
    /\ untagged_cost = <<>>
    /\ tag_fields = <<>>
    /\ untagged_df = <<>>
    /\ incomplete_csv = <<>>
    /\ filtered = <<>>
    /\ charts = FALSE
    /\ sel = NoSelection
    /\ edits = <<>>
    /\ edited_table = <<>>
    /\ updated_csv = <<>>

NextRun ==
    \/ Load
    \/ Task1
    \/ Task2
    \/ Task3
    \/ Task4
    \/ Task5

SpecStats == InitStats /\ [][NextRun]_vars

(***************************************************************************)
(* Properties.                                                             *)
(***************************************************************************)
\* the run has got past the given section
Past(section) ==
    CASE section = "load"  -> pc # "load"
      [] section = "task1" -> pc \notin {"load", "task1"}
      [] section = "task2" -> pc \notin {"load", "task1", "task2"}
      [] section = "task3" -> pc \in {"task4", "task5", "done"}
      [] section = "task4" -> pc \in {"task5", "done"}

RECURSIVE SumFcn(_)
\* the sum of the values of a function
SumFcn(f) ==
    IF DOMAIN f = {} THEN 0
    ELSE LET k == CHOOSE x \in DOMAIN f : TRUE
         IN  f[k] + SumFcn([x \in DOMAIN f \ {k} |-> f[x]])

\* the cost of record i, 0 when it is missing
CostOf(t, i) ==
    LET c == t.rows[i][CHOOSE j \in 1..Len(t.cols) : t.cols[j] = MonthlyCostUSD]
    IN  IF c[1] = "num" THEN c[2] ELSE 0

\* the Tagged value of record i
TaggedOf(t, i) ==
    t.rows[i][CHOOSE j \in 1..Len(t.cols) : t.cols[j] = Tagged]

\* C1: the per-tag-status cost sums add up to the total of MonthlyCostUSD
\* over all records, records with a missing Tagged value included.
C1_CostConserved ==
    cost_by_tag # <<>> =>
        SumFcn(cost_by_tag[1]) =
            SumSeq([i \in 1..Len(df.rows) |-> CostOf(df, i)])

\* C1, what the code does: the sums add up to the total over the records
\* whose Tagged value is not missing.
C1_CostOfTaggedValuesConserved ==
    cost_by_tag # <<>> =>
        SumFcn(cost_by_tag[1]) =
            SumSeq([i \in 1..Len(df.rows) |->
                      IF TaggedOf(df, i) = Missing THEN 0 ELSE CostOf(df, i)])

TagFieldSet == {W("Department"), W("Project"), W("Environment"), W("Owner"),
                W("CostCenter"), W("CreatedBy")}

\* the tag fields present in the schema of t
PresentTagCols(t) == {j \in 1..Len(t.cols) : t.cols[j] \in TagFieldSet}

\* the CompletenessScore cell of record i
ScoreOf(t, i) ==
    t.rows[i][CHOOSE j \in 1..Len(t.cols) : t.cols[j] = CompletenessScore]

\* C9: every record's CompletenessScore is the number of non-missing values
\* among the tag fields present in the schema; it lies in 0..(number of tag
\* fields present), is 6 when all six are present and non-missing and 0
\* when all are missing.
C9_CompletenessScore ==
    (pc \in {"task4", "task5", "done", "raised"} /\ df.rows # <<>>
        /\ PresentTagCols(df) # {}) =>
        /\ \E j \in 1..Len(df.cols) : df.cols[j] = CompletenessScore
        /\ \A i \in 1..Len(df.rows) :
             LET present == {j \in PresentTagCols(df) :
                                df.rows[i][j] # Missing}
                 k == Cardinality(present)
             IN  /\ ScoreOf(df, i) = <<"num", k>>
                 /\ k >= 0 /\ k <= Cardinality(PresentTagCols(df))
                 /\ (Cardinality(PresentTagCols(df)) = 6
                        /\ present = PresentTagCols(df)) => k = 6
                 /\ present = {} => k = 0

\* C9 witness: six tag fields in the schema, one record scoring 6 and one
\* scoring 0
C9_Witness ==
    /\ pc = "done"
    /\ Cardinality(PresentTagCols(df)) = 6
    /\ \E i, k \in 1..Len(df.rows) :
         ScoreOf(df, i) = <<"num", 6>> /\ ScoreOf(df, k) = <<"num", 0>>

\* C10: after the Completeness Scorer the Table is the one ingestion
\* produced: the column set detected at load, missing cells still missing,
\* MonthlyCostUSD numeric.
C10_TableUnchangedByScorer ==
    (Past("task3") /\ columns_detected # <<>>) =>
        /\ df.cols = columns_detected[1]
        /\ df = LoadCsv(file).df

(***************************************************************************)
(* Load failures (C2) and the repaired table (C3).                         *)
(***************************************************************************)
\* the number of comma-separated fields of a line
FieldCount(line) ==
    1 + Cardinality({i \in 1..Len(line) : line[i] = COMMA})

\* some record line has a field count different from the header's
SomeRowDiffers(f) ==
    \E i \in 2..Len(f.lines) : FieldCount(f.lines[i]) # FieldCount(f.lines[1])

\* the widest record line has a field count different from the header's
WidestRowDiffers(f) ==
    Max({FieldCount(f.lines[i]) : i \in 2..Len(f.lines)})
        # FieldCount(f.lines[1])

\* the field lists the lines of a file were joined from
HeaderFields(f) ==
    CHOOSE h \in {s.hdr : s \in Schemas} : Join(h, COMMA) = f.lines[1]
RecordFields(f, i) ==
    CHOOSE r \in AllFieldLists : Join(r, COMMA) = f.lines[i + 1]

\* a field made of nothing but spaces and tabs (the empty field included)
OnlyWhitespace(s) == \A i \in 1..Len(s) : s[i] = SP \/ s[i] = TAB

\* the position of the MonthlyCostUSD name in the header fields, 0 if none
CostPosition(h) ==
    LET P == {j \in 1..Len(h) : \E a, b \in 0..Len(h[j]) :
                 /\ a + b + 1 = Len(h[j])
                 /\ h[j][a + 1] = "MonthlyCostUSD"
                 /\ \A x \in (1..a) \cup ((a + 2)..Len(h[j])) :
                       h[j][x] \in {SP, TAB, BOM}}
    IN  IF P = {} THEN 0 ELSE CHOOSE j \in P : TRUE

\* the MonthlyCostUSD field of some record is neither blank nor a number
CostNotNumeric(f) ==
    LET k == CostPosition(HeaderFields(f))
    IN  /\ k > 0
        /\ \E i \in 1..(Len(f.lines) - 1) :
             LET r == RecordFields(f, i)
             IN  /\ k <= Len(r)
                 /\ ~OnlyWhitespace(r[k])
                 /\ \E x \in 1..Len(r[k]) : r[k][x] \notin Digits

\* every later section has skipped its computation
DownstreamSkipped ==
    /\ tag_counts = <<>>
    /\ pct_untagged = <<>>
    /\ cost_by_tag = <<>> /\ total_cost = <<>> /\ untagged_cost = <<>>
    /\ tag_fields = <<>>
    /\ untagged_df \in {<<>>, <<EmptyFrame>>}
    /\ incomplete_csv = <<>>
    /\ filtered \in {<<>>, <<EmptyFrame>>}
    /\ charts = FALSE
    /\ edited_table = <<>>
    /\ updated_csv = <<>>

\* the load of this run failed and was handled: empty table, error shown,
\* nothing computed downstream, no exception, the run goes on to its end
FailureHandled ==
    /\ load_error
    /\ df = EmptyFrame
    /\ DownstreamSkipped
    /\ pc # "raised"
    /\ pc # "done" => ENABLED Next

\* C2 as stated: a missing file, a row whose field count differs from the
\* header's, a missing or non-numeric MonthlyCostUSD column: each is a load
\* failure, which leaves an empty Table and an error message, makes every
\* downstream step skip, and lets the run reach its end.
C2_AnyListedFailureHandled ==
    (Past("load") /\
        (\/ ~file.exists
         \/ SomeRowDiffers(file)
         \/ CostPosition(HeaderFields(file)) = 0
         \/ CostNotNumeric(file))) => FailureHandled

\* C2 amended: as C2, but the field-count failure is that of the widest
\* row; a row narrower than the widest is padded with missing values and
\* loads.  Outside these cases the load succeeds.
C2_LoadFailureHandled ==
    Past("load") =>
        IF \/ ~file.exists
           \/ WidestRowDiffers(file)
           \/ CostPosition(HeaderFields(file)) = 0
           \/ CostNotNumeric(file)
        THEN FailureHandled
        ELSE ~load_error /\ ~IsEmpty(df)

\* C2 witness: a run on a file with a non-numeric cost has reached its end
\* with the error shown and nothing computed
C2_Witness ==
    /\ pc = "done"
    /\ file.exists
    /\ CostNotNumeric(file)
    /\ load_error

\* the column names of the model's headers, as written in the source file
ExpectedNames(h) ==
    IF h = HdrSmall
    THEN <<W("ResourceID"), W("Department"), W("Tagged"), W("MonthlyCostUSD")>>
    ELSE h

\* the whole-dollar amounts of the model's files
Amount(field) ==
    CASE field = <<"1">> -> 1 [] field = <<"2">> -> 2 [] field = <<"3">> -> 3
      [] field = <<"4">> -> 4 [] field = <<"5">> -> 5 [] field = <<"7">> -> 7
      [] field = <<"1", "0">> -> 10

\* the cell ingestion is to produce for field j of a record
ExpectedCell(r, j, name) ==
    IF j > Len(r) THEN <<"nan">>
    ELSE IF OnlyWhitespace(r[j]) THEN <<"nan">>
    ELSE IF name = W("MonthlyCostUSD") THEN <<"num", Amount(r[j])>>
    ELSE <<"str">> \o r[j]

\* the table ingestion is to produce for a file
ExpectedTable(f) ==
    LET h == HeaderFields(f)
    IN  [cols |-> ExpectedNames(h),
         rows |-> [i \in 1..(Len(f.lines) - 1) |->
                     [j \in 1..Len(h) |->
                        ExpectedCell(RecordFields(f, i), j,
                                     ExpectedNames(h)[j])]]]

\* C3 as stated, on its example: header A,B,C with the one record 1,,3
\* yields columns [A,B,C] and the row [1, missing, 3].
C3_ExampleABC ==
    (pc = "task1" /\ file = MkFile(HdrABC, <<RowsABC[1]>>)) =>
        df = [cols |-> <<W("A"), W("B"), W("C")>>,
              rows |-> << <<Str(W("1")), Missing, Str(W("3"))>> >>]

\* C3 amended: for an input whose widest record has as many fields as the
\* header, whose header holds MonthlyCostUSD and whose cost fields are
\* numbers or blank, the columns are the header's comma-split names with
\* surrounding whitespace and byte-order marks removed, in order, and the
\* rows hold the comma-split fields, blank fields (and the fields a short
\* record lacks) as missing and the MonthlyCostUSD fields as numbers.
C3_RepairedTable ==
    (pc = "task1" /\ file.exists /\ ~WidestRowDiffers(file)
        /\ CostPosition(HeaderFields(file)) # 0 /\ ~CostNotNumeric(file)) =>
        /\ df = ExpectedTable(file)
        /\ columns_detected = <<ExpectedTable(file).cols>>

\* C3 witness: a decorated header, a whitespace-only field and a short
\* record have been repaired
C3_Witness ==
    /\ pc = "task1"
    /\ file = MkFile(HdrSmall, <<RowsSmall[2], RowsSmall[5]>>)
    /\ df.cols = <<W("ResourceID"), W("Department"), W("Tagged"),
                   W("MonthlyCostUSD")>>
    /\ df.rows[1] = <<Str(W("b")), Missing, Str(W("No")), Missing>>
    /\ df.rows[2] = <<Str(W("e")), Str(<<SP, "Ops">>), Missing, Missing>>

(***************************************************************************)
(* Filters (C4), incomplete resources (C5), export (C6), reruns (C7).      *)
(***************************************************************************)
\* record i of t passes every filter that has a non-empty selection
Passes(t, i) ==
    \A k \in 1..3 :
        LET name == <<W("Service"), W("Region"), W("Department")>>[k]
            J == {j \in 1..Len(t.cols) : t.cols[j] = name}
        IN  (J # {} /\ sel[k] # {}) =>
                \A j \in J : t.rows[i][j] \in sel[k]

\* C4: an empty selection does not filter on its column (all selections
\* empty: the filtered table is the base table); a non-empty selection keeps
\* exactly the records whose value is selected; the filters combine as a
\* conjunction; the filtered count never exceeds the original.
C4_Filtering ==
    Past("task4") =>
        LET f == filtered[1]
            I == {i \in 1..Len(df.rows) : Passes(df, i)}
        IN  /\ f.cols = df.cols
            /\ Len(f.rows) = Cardinality(I)
            /\ \A n \in 1..Cardinality(I) : f.rows[n] = df.rows[Kth(I, n)]
            /\ Len(f.rows) <= Len(df.rows)
            /\ (\A k \in 1..3 : sel[k] = {}) => f = df

\* C4 witness: two filters are set; a record passes the first and fails the
\* second, another passes both
C4_Witness ==
    /\ pc = "done"
    /\ sel[1] # {} /\ sel[2] # {}
    /\ Len(filtered[1].rows) >= 1
    /\ \E i \in 1..Len(df.rows) :
         /\ Cell(df, i, Service) \in sel[1]
         /\ Cell(df, i, Region) \notin sel[2]

\* the records of t with a missing value in a tag field of the schema
IncompleteRecords(t) ==
    {i \in 1..Len(t.rows) :
        \E j \in PresentTagCols(t) : t.rows[i][j] = <<"nan">>}

\* C5 as stated: the incomplete-resource selection (missing rendered as
\* the empty string) applied to its own output gives that output again.
C5_Idempotent ==
    (Past("task3") /\ tag_fields # <<>>) =>
        IncompleteResources(untagged_df[1], tag_fields) = untagged_df[1]

\* C5 amended: the selection of the records with a missing tag field is
\* idempotent before the rendering; the rendered output holds those records
\* with no missing cell left, so the selection applied to it is empty.
C5_SelectionIdempotent ==
    (Past("task3") /\ tag_fields # <<>>) =>
        LET m == Mask(df, IncompleteMask(df, tag_fields))
            u == untagged_df[1]
        IN  /\ Mask(m, IncompleteMask(m, tag_fields)) = m
            /\ Len(m.rows) = Cardinality(IncompleteRecords(df))
            /\ Len(u.rows) = Len(m.rows)
            /\ \A i \in 1..Len(u.rows) : \A j \in 1..Len(u.cols) :
                 u.rows[i][j] = IF m.rows[i][j] = <<"nan">>
                                THEN <<"str">> ELSE m.rows[i][j]
            /\ IncompleteResources(u, tag_fields).rows = <<>>

\* C5 witness: the incomplete-resource table is not empty
C5_Witness ==
    /\ pc = "done"
    /\ tag_fields # <<>>
    /\ untagged_df[1].rows # <<>>

\* the number a numeric field of an export reads as ("12" and "12.0": 12)
ReadNumber(field) ==
    LET digits == IF \E x \in 1..Len(field) : field[x] = DOT
                  THEN SubSeq(field, 1,
                              (CHOOSE x \in 1..Len(field) : field[x] = DOT) - 1)
                  ELSE field
    IN  ParseInt(digits)

\* the field read back holds the value of the cell; a missing cell reads as
\* the empty field
SameValue(c, field) ==
    IF c = <<"nan">> THEN field = <<>>
    ELSE IF c[1] = "num" THEN field # <<>> /\ ReadNumber(field) = c[2]
    ELSE field = Tail(c)

\* updated_data.csv read back has as many records as the grid and the value
\* of every cell of the grid
ReadsBack(p, t) ==
    /\ Len(p.rows) = Len(t.rows)
    /\ \A i \in 1..Len(t.rows) :
         /\ Len(p.rows[i]) = Len(t.cols)
         /\ \A j \in 1..Len(t.cols) : SameValue(t.rows[i][j], p.rows[i][j])

\* C6: updated_data.csv read back by a conformant CSV reader has the record
\* count of the current Table, the columns of the loaded Table and the value
\* of every non-missing cell; a missing cell reads as empty.
C6_RoundTrip ==
    (pc = "done" /\ updated_csv # <<>>) =>
        LET p == ParseCsv(updated_csv[1])
        IN  /\ p.cols = columns_detected[1]
            /\ ReadsBack(p, edited_table[1])

\* C6, what the code does: the export reads back with the columns of the
\* exported grid, which has the CompletenessScore column when Task 3 ran.
C6_RoundTripOfExportedColumns ==
    (pc = "done" /\ updated_csv # <<>>) =>
        LET p == ParseCsv(updated_csv[1])
        IN  /\ p.cols = edited_table[1].cols
            /\ ReadsBack(p, edited_table[1])

\* the number of edits of a kind made so far
EditCount(op) == Cardinality({n \in 1..Len(edits) : edits[n].op = op})

\* C7 as stated: the statistics of a pass are those of the current Table,
\* the loaded table as mutated by the edits made so far.
C7_StatisticsReflectEdits ==
    (pc = "done" /\ edited_table # <<>> /\ tag_counts # <<>>) =>
        tag_counts = <<ValueCounts(edited_table[1], Tagged)>>

\* what a completed pass shows: statistics of the file's records, the edits
\* only in the grid and in updated_data.csv
PassOverReloadedFile ==
    pc = "done" =>
        /\ ~load_error =>
             /\ [cols |-> columns_detected[1],
                 rows |-> [i \in 1..Len(df.rows) |->
                             SubSeq(df.rows[i], 1, Len(columns_detected[1]))]]
                  = ExpectedTable(file)
             /\ filtered[1].cols = df.cols
        /\ tag_counts # <<>> =>
             SumFcn(tag_counts[1]) = Len(file.lines) - 1
        /\ edited_table # <<>> =>
             /\ Len(edited_table[1].rows) =
                  Len(file.lines) - 1 + EditCount("add") - EditCount("delete")
             /\ Len(updated_csv[1]) = Len(edited_table[1].rows) + 1
             /\ (edits # <<>> /\ edits[Len(edits)].op = "cell") =>
                  LET e == edits[Len(edits)]
                  IN  Cell(edited_table[1], e.row, e.col) = e.value

\* C7 amended: every interaction triggers one full pass, which runs to its
\* end before the next interaction and re-reads the source file; its
\* statistics, completeness, filter and chart outputs are those of the
\* file's records and do not reflect the grid edits, which show only in the
\* grid and in updated_data.csv; the source file is never modified.
C7_PassOverReloadedFile ==
    /\ []PassOverReloadedFile
    /\ [](pc = "raised" => (sel = NoSelection /\ edits = <<>>))
    /\ [][file' = file]_vars
    /\ [][(sel' # sel \/ edits' # edits) => (pc = "done" /\ pc' = "load")]_vars

\* C7 witness: a pass has completed after a grid edit, and its tag counts
\* are not those of the edited grid
C7_Witness ==
    /\ pc = "done"
    /\ edits # <<>>
    /\ tag_counts # <<>>
    /\ tag_counts # <<ValueCounts(edited_table[1], Tagged)>>

====
